---- MODULE Spec2Model ----
(***************************************************************************)
(* Model of the instrument drivers KepcoBOP5020 (kepco_bopgl_5020.py) and  *)
(* ZVA / VNAChannel / ChannelTrace (zva50.py).                             *)
(*                                                                         *)
(* Python values are tagged records: numbers are exact decimals m * 10^e   *)
(* (frequencies in Hz exceed 32 bits, so a mantissa/exponent pair is       *)
(* kept), booleans and strings carry their own tag.  Text on the wire is   *)
(* a numeral (with the fact whether it is an integer literal) or a word.   *)
(***************************************************************************)
EXTENDS Integers, Sequences, FiniteSets, TLC

VARIABLES
    prop,       \* owner and name of the property declaration a behaviour exercises
    unit,       \* path of the unit it acts on, innermost first (<<>>: the device)
    wire,       \* transport spy: the lines written, oldest first
    last,       \* outcome of the most recent accessor call
    channels,   \* ZVA child mapping: key -> set of trace keys of that channel
    created,    \* sub-units whose creation command was written successfully
    call,       \* the helper procedure in progress and its locals
    reads,      \* sweep_counter responses consumed so far by single_sweep_vna
    faults      \* writes the transport has refused so far

vars == <<prop, unit, wire, last, channels, created, call, reads, faults>>

-----------------------------------------------------------------------------
(* Bounds of the model *)

MaxWire == 2
MaxChannels == 2
MaxTraces == 2
MaxPolls == 4
MaxCounter == 3
MaxFaults == 1

-----------------------------------------------------------------------------
(* Python values *)

RECURSIVE Pow10(_)
Pow10(n) == IF n <= 0 THEN 1 ELSE 10 * Pow10(n - 1)

AbsInt(n) == IF n < 0 THEN -n ELSE n

RECURSIVE Digits(_)
Digits(n) == IF AbsInt(n) < 10 THEN 1 ELSE 1 + Digits(AbsInt(n) \div 10)

RECURSIVE Norm(_, _)
Norm(m, e) ==
    IF m = 0 THEN [m |-> 0, e |-> 0]
    ELSE IF m % 10 = 0 THEN Norm(m \div 10, e + 1)
    ELSE [m |-> m, e |-> e]

FloatVal(m, e) == [t |-> "float", m |-> Norm(m, e).m, e |-> Norm(m, e).e]
IntVal(n) == [t |-> "int", m |-> Norm(n, 0).m, e |-> Norm(n, 0).e]
BoolVal(b) == [t |-> "bool", b |-> b]

IsNumber(v) == v.t \in {"int", "float", "bool"}

\* a bool is an int in Python: True == 1, False == 0
Mant(v) == IF v.t = "bool" THEN (IF v.b THEN 1 ELSE 0) ELSE v.m
Expo(v) == IF v.t = "bool" THEN 0 ELSE v.e

Sgn(v) == IF Mant(v) > 0 THEN 1 ELSE IF Mant(v) < 0 THEN -1 ELSE 0
Mag(v) == Digits(Mant(v)) + Expo(v)
MinInt(a, b) == IF a <= b THEN a ELSE b

\* |a| < |b| for nonzero numbers: by the position of the leading digit, then
\* by the digits aligned to the smaller exponent
AbsLess(a, b) ==
    IF Mag(a) # Mag(b) THEN Mag(a) < Mag(b)
    ELSE LET k == MinInt(Expo(a), Expo(b))
         IN  AbsInt(Mant(a)) * Pow10(Expo(a) - k) < AbsInt(Mant(b)) * Pow10(Expo(b) - k)

NumLess(a, b) ==
    IF Sgn(a) # Sgn(b) THEN Sgn(a) < Sgn(b)
    ELSE IF Sgn(a) = 0 THEN FALSE
    ELSE IF Sgn(a) > 0 THEN AbsLess(a, b)
    ELSE AbsLess(b, a)

NumEq(a, b) == Mant(a) = Mant(b) /\ Expo(a) = Expo(b)
NumLeq(a, b) == NumLess(a, b) \/ NumEq(a, b)

\* Python ==: numbers by value whatever their type, strings by text
PyEq(a, b) ==
    IF IsNumber(a) /\ IsNumber(b) THEN NumEq(a, b)
    ELSE IF a.t = "str" /\ b.t = "str" THEN a.w = b.w
    ELSE FALSE

\* c * v for c a power of ten (the unit conversions of the drivers)
Scale(k, v) == FloatVal(Mant(v), Expo(v) + k)

\* int(x) of a number: truncation toward zero
Trunc(v) ==
    IF Expo(v) >= 0 THEN [t |-> "int", m |-> Mant(v), e |-> Expo(v)]
    ELSE IF -Expo(v) > 9 THEN IntVal(0)
    ELSE IntVal(Sgn(v) * (AbsInt(Mant(v)) \div Pow10(-Expo(v))))

None == [t |-> "none"]
Ok(v) == [ok |-> TRUE, v |-> v]
Raise(e) == [ok |-> FALSE, err |-> e]

-----------------------------------------------------------------------------
(* Text on the wire: a numeral or a word *)

Numeral(v, intlit) == [t |-> "numeral", m |-> Mant(v), e |-> Expo(v), intlit |-> intlit]
Word(s) == [t |-> "word", s |-> s]

\* a Python str holding wire text w
Text(w) == [t |-> "str", w |-> w]
StrVal(s) == Text(Word(s))

\* the number a numeral denotes
Denotes(w) == FloatVal(w.m, w.e)

\* '%d' % v: a number is truncated to an integer; anything else is a TypeError
FormatD(v) ==
    IF IsNumber(v) THEN Ok(Numeral(Trunc(v), TRUE)) ELSE Raise("TypeError")

\* '%g' % v: six significant digits, round half to even; plain digits without
\* a point only for an integral value below 10^6
RoundSig(m, keep) ==
    LET d == Digits(m)
        p == Pow10(d - keep)
        q == AbsInt(m) \div p
        r == AbsInt(m) % p
        up == 2 * r > p \/ (2 * r = p /\ q % 2 = 1)
        s == IF m < 0 THEN -1 ELSE 1
    IN  IF d <= keep THEN [m |-> m, shift |-> 0]
        ELSE [m |-> s * (IF up THEN q + 1 ELSE q), shift |-> d - keep]

FormatG(v) ==
    IF ~IsNumber(v) THEN Raise("TypeError")
    ELSE LET r == RoundSig(Mant(v), 6)
             n == FloatVal(r.m, Expo(v) + r.shift)
         IN  Ok(Numeral(n, n.e >= 0 /\ Mag(n) <= 6))

\* '%s' % v: str(v)
FormatS(v) ==
    CASE v.t = "str"   -> Ok(v.w)
      [] v.t = "bool"  -> Ok(Word(IF v.b THEN "True" ELSE "False"))
      [] v.t = "int"   -> Ok(Numeral(v, TRUE))
      [] v.t = "float" -> Ok(Numeral(v, FALSE))
      [] OTHER         -> Ok(Word("<object>"))

Format(fmt, v) ==
    CASE fmt = "%d" -> FormatD(v)
      [] fmt = "%g" -> FormatG(v)
      [] fmt = "%s" -> FormatS(v)

\* float(text), int(text)
CastFloat(w) == IF w.t = "numeral" THEN Ok(Denotes(w)) ELSE Raise("ValueError")
CastInt(w) ==
    IF w.t = "numeral" /\ w.intlit THEN Ok([t |-> "int", m |-> w.m, e |-> w.e])
    ELSE Raise("ValueError")

-----------------------------------------------------------------------------
(* Validators and the accessor pair built from a property declaration *)

IsComparable(seq) == \A i \in 1..Len(seq) : IsNumber(seq[i])

RECURSIVE MinOf(_)
MinOf(seq) ==
    IF Len(seq) = 1 THEN seq[1]
    ELSE LET r == MinOf(Tail(seq)) IN IF NumLess(r, seq[1]) THEN r ELSE seq[1]

RECURSIVE MaxOf(_)
MaxOf(seq) ==
    IF Len(seq) = 1 THEN seq[1]
    ELSE LET r == MaxOf(Tail(seq)) IN IF NumLess(seq[1], r) THEN r ELSE seq[1]

InRange(value, values) ==
    NumLeq(MinOf(values), value) /\ NumLeq(value, MaxOf(values))

\* value if min(values) <= value <= max(values), else ValueError;
\* comparing a number with anything but a number is a TypeError
strict_range(value, values) ==
    IF ~IsComparable(values) \/ ~IsNumber(value) THEN Raise("TypeError")
    ELSE IF InRange(value, values) THEN Ok(value)
    ELSE Raise("ValueError")

\* value if in range, else the nearest bound
truncated_range(value, values) ==
    IF ~IsComparable(values) \/ ~IsNumber(value) THEN Raise("TypeError")
    ELSE IF InRange(value, values) THEN Ok(value)
    ELSE IF NumLess(MaxOf(values), value) THEN Ok(MaxOf(values))
    ELSE Ok(MinOf(values))

\* the members of a list or set, the keys of a dict
Members(d) ==
    IF d.kind = "dict" THEN {d.values[i].k : i \in 1..Len(d.values)}
    ELSE {d.values[i] : i \in 1..Len(d.values)}

\* value if value in values, else ValueError
strict_discrete_set(value, d) ==
    IF \E x \in Members(d) : PyEq(x, value) THEN Ok(value) ELSE Raise("ValueError")

\* the validator of a measurement or setting declared without one
no_validator(value, values) == Ok(value)

Validate(d, value) ==
    CASE d.validator = "strict_range"        -> strict_range(value, d.values)
      [] d.validator = "truncated_range"     -> truncated_range(value, d.values)
      [] d.validator = "strict_discrete_set" -> strict_discrete_set(value, d)
      [] OTHER                               -> no_validator(value, d.values)

\* values[value] of a dict
DictLookup(d, key) ==
    LET hits == {i \in 1..Len(d.values) : PyEq(d.values[i].k, key)}
    IN  IF hits = {} THEN Raise("KeyError")
        ELSE Ok(d.values[CHOOSE i \in hits : TRUE].v)

\* the first key whose value equals the wire value, else KeyError
DictInverse(d, value) ==
    LET hits == {i \in 1..Len(d.values) : PyEq(d.values[i].v, value)}
    IN  IF hits = {} THEN Raise("KeyError")
        ELSE Ok(d.values[CHOOSE i \in hits : \A j \in hits : i <= j].k)

\* Command templates: a sequence of literal pieces and placeholders.  esc counts
\* the doubled braces still around a placeholder: {ch} is esc 0, {{ch}} is esc 1.
L(s) == [lit |-> s]
P(name) == [ph |-> name, esc |-> 0]
PP(name) == [ph |-> name, esc |-> 1]
IsLit(tok) == "lit" \in DOMAIN tok

F(fmt) == [fmt |-> fmt]
IsFmt(tok) == "fmt" \in DOMAIN tok

\* what a declaration leaves unsaid
Default ==
    [get |-> <<>>, set |-> <<>>, validator |-> "none", kind |-> "list",
     values |-> <<>>, map_values |-> FALSE, cast |-> "float",
     set_process |-> "identity", get_process |-> "identity"]

-----------------------------------------------------------------------------
(* kepco_bopgl_5020.py: the declarations of KepcoBOP5020 *)

_Vmax == 50
_Imax == 20

\* x * 1.01
Times101(x) == FloatVal(x * 101, -2)

\* class TestErrorCode(IntFlag): the values of its members
TestErrorCodeMembers == {512, 256, 128, 64, 32, 16, 8, 4, 2, 1, 0}

Flag(n) == [t |-> "TestErrorCode", bits |-> n]

\* TestErrorCode(v): a value equal to a member's value is looked up (1.0 == 1);
\* any other value is composed from the bits if it is an int and is a
\* ValueError if it is not
TestErrorCode(v) ==
    IF ~IsNumber(v) THEN Raise("ValueError")
    ELSE IF Expo(v) >= 0 /\ Mag(v) <= 4 /\ Mant(v) * Pow10(Expo(v)) \in TestErrorCodeMembers
         THEN Ok(Flag(Mant(v) * Pow10(Expo(v))))
    ELSE IF v.t \in {"int", "bool"} /\ Mag(v) <= 4
         THEN Ok(Flag((Mant(v) * Pow10(Expo(v))) % 1024))
    ELSE Raise("ValueError")

confidence_test ==
    [owner |-> "KepcoBOP5020", name |-> "confidence_test",
     get |-> <<L("*TST?")>>, get_process |-> "TestErrorCode"] @@ Default

bop_test ==
    [owner |-> "KepcoBOP5020", name |-> "bop_test",
     get |-> <<L("DIAG:TST?")>>, get_process |-> "TestErrorCode"] @@ Default

OPERATING_MODES == <<StrVal("VOLT"), StrVal("CURR")>>

\* lambda x: OPERATING_MODES[int(x)]: int() of a number truncates, int() of a
\* word is a ValueError; a list takes the indices -len .. len-1
operating_mode_get_process(x) ==
    IF ~IsNumber(x) THEN Raise("ValueError")
    ELSE LET i == Trunc(x)
             n == Len(OPERATING_MODES)
             k == i.m * Pow10(i.e)
         IN  IF i.e > 1 THEN Raise("IndexError")
             ELSE IF 0 <= k /\ k < n THEN Ok(OPERATING_MODES[k + 1])
             ELSE IF -n <= k /\ k < 0 THEN Ok(OPERATING_MODES[n + k + 1])
             ELSE Raise("IndexError")

operating_mode ==
    [owner |-> "KepcoBOP5020", name |-> "operating_mode",
     get |-> <<L("FUNCtion:MODE?")>>, set |-> <<L("FUNCtion:MODE "), F("%s")>>,
     validator |-> "strict_discrete_set", values |-> OPERATING_MODES,
     get_process |-> "operating_mode"] @@ Default

current_setpoint ==
    [owner |-> "KepcoBOP5020", name |-> "current_setpoint",
     get |-> <<L("CURRent?")>>, set |-> <<L("CURRent "), F("%g")>>,
     validator |-> "truncated_range",
     values |-> <<IntVal(-1 * _Imax), IntVal(_Imax)>>] @@ Default

voltage_setpoint ==
    [owner |-> "KepcoBOP5020", name |-> "voltage_setpoint",
     get |-> <<L("VOLTage?")>>, set |-> <<L("VOLTage "), F("%g")>>,
     validator |-> "truncated_range",
     values |-> <<IntVal(-1 * _Vmax), IntVal(_Vmax)>>] @@ Default

\* the declaration with the two wire values exchanged
output_enabled_inverted ==
    [owner |-> "KepcoBOP5020", name |-> "output_enabled",
     get |-> <<L("OUTPut?")>>, set |-> <<L("OUTP:CONT OFF; OUTPut "), F("%d")>>,
     validator |-> "strict_discrete_set", kind |-> "dict",
     values |-> << [k |-> BoolVal(TRUE), v |-> IntVal(0)], [k |-> BoolVal(FALSE), v |-> IntVal(1)] >>,
     map_values |-> TRUE] @@ Default

output_enabled ==
    [owner |-> "KepcoBOP5020", name |-> "output_enabled",
     get |-> <<L("OUTPut?")>>, set |-> <<L("OUTP:CONT OFF; OUTPut "), F("%d")>>,
     validator |-> "strict_discrete_set", kind |-> "dict",
     values |-> << [k |-> BoolVal(TRUE), v |-> IntVal(1)], [k |-> BoolVal(FALSE), v |-> IntVal(0)] >>,
     map_values |-> TRUE] @@ Default

output_mode ==
    [owner |-> "KepcoBOP5020", name |-> "output_mode",
     get |-> <<L("OUTP:MODE?")>>, set |-> <<L("OUTP:MODE "), F("%s")>>,
     validator |-> "strict_discrete_set", kind |-> "set",
     values |-> <<StrVal("ACTIVE"), StrVal("RESISTIVE"), StrVal("BATTERY")>>] @@ Default

trigger_source ==
    [owner |-> "KepcoBOP5020", name |-> "trigger_source",
     get |-> <<L("TRIG:SOUR?")>>, set |-> <<L("TRIG:SOUR "), F("%s")>>,
     validator |-> "strict_discrete_set", kind |-> "set",
     values |-> <<StrVal("BUS"), StrVal("EXT"), StrVal("IMM")>>] @@ Default

\* trigger_voltage declared without its validator
trigger_voltage_unvalidated ==
    [owner |-> "KepcoBOP5020", name |-> "trigger_voltage",
     get |-> <<L("VOLT:TRIG?")>>, set |-> <<L("VOLT:TRIG "), F("%d")>>,
     values |-> <<IntVal(-1 * _Vmax), IntVal(_Vmax)>>] @@ Default

trigger_voltage ==
    [owner |-> "KepcoBOP5020", name |-> "trigger_voltage",
     get |-> <<L("VOLT:TRIG?")>>, set |-> <<L("VOLT:TRIG "), F("%d")>>,
     validator |-> "truncated_range",
     values |-> <<IntVal(-1 * _Vmax), IntVal(_Vmax)>>] @@ Default

trigger_current ==
    [owner |-> "KepcoBOP5020", name |-> "trigger_current",
     get |-> <<L("CURR:TRIG?")>>, set |-> <<L("CURR:TRIG "), F("%d")>>,
     validator |-> "truncated_range",
     values |-> <<IntVal(-1 * _Imax), IntVal(_Imax)>>] @@ Default

trigger_continuous ==
    [owner |-> "KepcoBOP5020", name |-> "trigger_continuous",
     get |-> <<L("INIT:CONT?")>>, set |-> <<L("INIT:CONT "), F("%d")>>,
     validator |-> "strict_discrete_set", kind |-> "dict",
     values |-> << [k |-> BoolVal(FALSE), v |-> IntVal(0)], [k |-> BoolVal(TRUE), v |-> IntVal(1)] >>,
     map_values |-> TRUE] @@ Default

voltage_protect_limit ==
    [owner |-> "KepcoBOP5020", name |-> "voltage_protect_limit",
     get |-> <<L("VOLT:PROT:LIM?")>>, set |-> <<L("VOLT:PROT:LIM "), F("%d")>>,
     validator |-> "truncated_range",
     values |-> <<Times101(-1 * _Vmax), Times101(_Vmax)>>] @@ Default

current_protect_limit ==
    [owner |-> "KepcoBOP5020", name |-> "current_protect_limit",
     get |-> <<L("CURR:PROT:LIM?")>>, set |-> <<L("CURR:PROT:LIM "), F("%d")>>,
     validator |-> "truncated_range",
     values |-> <<Times101(-1 * _Imax), Times101(_Imax)>>] @@ Default

voltage_limit ==
    [owner |-> "KepcoBOP5020", name |-> "voltage_limit",
     get |-> <<L("VOLT:LIM?")>>, set |-> <<L("VOLT:LIM "), F("%d")>>,
     validator |-> "truncated_range",
     values |-> <<IntVal(-1 * _Vmax), IntVal(_Vmax)>>] @@ Default

current_limit ==
    [owner |-> "KepcoBOP5020", name |-> "current_limit",
     get |-> <<L("CURR:LIM?")>>, set |-> <<L("CURR:LIM "), F("%d")>>,
     validator |-> "truncated_range",
     values |-> <<IntVal(-1 * _Imax), IntVal(_Imax)>>] @@ Default

-----------------------------------------------------------------------------
(* zva50.py: the declarations of VNAChannel *)

\* power declared with the clamping validator
power_truncated ==
    [owner |-> "VNAChannel", name |-> "power",
     get |-> <<L("SOUR"), P("ch"), L(":POW?")>>,
     set |-> <<L("SOUR"), P("ch"), L(":POW "), F("%d")>>,
     validator |-> "truncated_range",
     values |-> <<IntVal(-40), IntVal(10)>>] @@ Default

power ==
    [owner |-> "VNAChannel", name |-> "power",
     get |-> <<L("SOUR"), P("ch"), L(":POW?")>>,
     set |-> <<L("SOUR"), P("ch"), L(":POW "), F("%d")>>,
     validator |-> "strict_range",
     values |-> <<IntVal(-40), IntVal(10)>>] @@ Default

if_bandwidth ==
    [owner |-> "VNAChannel", name |-> "if_bandwidth",
     get |-> <<L("SENS"), P("ch"), L(":BAND?")>>,
     set |-> <<L("SENS"), P("ch"), L(":BAND "), F("%d")>>,
     validator |-> "strict_range",
     values |-> <<IntVal(1), FloatVal(1, 6)>>,
     cast |-> "int"] @@ Default

selective_bandwidth ==
    [owner |-> "VNAChannel", name |-> "selective_bandwidth",
     get |-> <<L("SENS"), P("ch"), L(":BAND:DRED?")>>,
     set |-> <<L("SENS"), P("ch"), L(":BAND:DRED "), F("%s")>>,
     validator |-> "strict_discrete_set",
     values |-> << [k |-> BoolVal(FALSE), v |-> StrVal("OFF")], [k |-> BoolVal(TRUE), v |-> StrVal("ON")] >>,
     kind |-> "dict", map_values |-> TRUE] @@ Default

sweep_continuity ==
    [owner |-> "VNAChannel", name |-> "sweep_continuity",
     get |-> <<L("INIT"), P("ch"), L(":CONT?")>>,
     set |-> <<L("INIT"), P("ch"), L(":CONT "), F("%s")>>,
     validator |-> "strict_discrete_set",
     values |-> << [k |-> BoolVal(FALSE), v |-> StrVal("OFF")], [k |-> BoolVal(TRUE), v |-> StrVal("ON")] >>,
     kind |-> "dict", map_values |-> TRUE] @@ Default

sweep_number ==
    [owner |-> "VNAChannel", name |-> "sweep_number",
     get |-> <<L("SENS"), P("ch"), L(":SWE:COUN?")>>,
     set |-> <<L("SENS"), P("ch"), L(":SWE:COUN "), F("%d")>>,
     validator |-> "strict_range",
     values |-> <<IntVal(1), IntVal(999)>>,
     cast |-> "int"] @@ Default

sweep_counter ==
    [owner |-> "VNAChannel", name |-> "sweep_counter",
     get |-> <<L("CALC"), P("ch"), L(":DATA:NSW:COUN?")>>] @@ Default

scope_single_sweep ==
    [owner |-> "VNAChannel", name |-> "scope_single_sweep",
     get |-> <<L("INIT:IMM:SCOP?")>>,
     set |-> <<L("INIT:IMM:SCOP "), F("%s")>>,
     validator |-> "strict_discrete_set",
     values |-> << [k |-> BoolVal(FALSE), v |-> StrVal("ALL")], [k |-> BoolVal(TRUE), v |-> StrVal("SING")] >>,
     kind |-> "dict", map_values |-> TRUE] @@ Default

sweep_points ==
    [owner |-> "VNAChannel", name |-> "sweep_points",
     get |-> <<L("SENS"), P("ch"), L(":SWE:POIN?")>>,
     set |-> <<L("SENS"), P("ch"), L(":SWE:POIN "), F("%d")>>,
     validator |-> "strict_range",
     values |-> <<IntVal(1), IntVal(60001)>>,
     cast |-> "int"] @@ Default

sweep_type ==
    [owner |-> "VNAChannel", name |-> "sweep_type",
     get |-> <<L("SENSe"), P("ch"), L(":SWEep:TYPE?")>>,
     set |-> <<L("SENSe"), P("ch"), L(":SWEep:TYPE "), F("%s")>>,
     validator |-> "strict_discrete_set",
     values |-> <<StrVal("LIN"), StrVal("SEG"), StrVal("POW"), StrVal("POIN"), StrVal("LOG"), StrVal("CW"), StrVal("PUL"), StrVal("IAMP"), StrVal("IPH")>>] @@ Default

\* lambda v: 1e9 * v (GHz to Hz); a word times a float is a TypeError
cw_frequency_set_process(v) ==
    IF IsNumber(v) THEN Ok(Scale(9, v)) ELSE Raise("TypeError")

cw_frequency ==
    [owner |-> "VNAChannel", name |-> "cw_frequency",
     get |-> <<L("SENS"), P("ch"), L(":FREQ:CW?")>>,
     set |-> <<L("SENS"), P("ch"), L(":FREQ:CW "), F("%d")>>,
     validator |-> "strict_range",
     values |-> <<FloatVal(1, -2), IntVal(50)>>,
     set_process |-> "cw_frequency"] @@ Default

avg_active ==
    [owner |-> "VNAChannel", name |-> "avg_active",
     get |-> <<L("SENSe"), P("ch"), L(":AVER:STAT?")>>,
     set |-> <<L("SENSe"), P("ch"), L(":AVER:STAT "), F("%s")>>,
     validator |-> "strict_discrete_set",
     values |-> << [k |-> BoolVal(FALSE), v |-> StrVal("OFF")], [k |-> BoolVal(TRUE), v |-> StrVal("ON")] >>,
     kind |-> "dict", map_values |-> TRUE] @@ Default

\* the upper bound of avg_number is the property object sweep_number itself,
\* not a number
PropertyObject(name) == [t |-> "property", name |-> name]

avg_number ==
    [owner |-> "VNAChannel", name |-> "avg_number",
     get |-> <<L("SENS"), P("ch"), L(":AVER:COUN?")>>,
     set |-> <<L("SENS"), P("ch"), L(":AVER:COUN "), F("%d")>>,
     validator |-> "strict_range",
     values |-> <<IntVal(1), PropertyObject("sweep_number")>>,
     cast |-> "int"] @@ Default

\* lambda v: 1e9 * v (GHz to Hz)
freq_start_set_process(v) ==
    IF IsNumber(v) THEN Ok(Scale(9, v)) ELSE Raise("TypeError")

\* lambda v: 1e-9 * v (Hz to GHz)
freq_start_get_process(v) ==
    IF IsNumber(v) THEN Ok(Scale(-9, v)) ELSE Raise("TypeError")

freq_start ==
    [owner |-> "VNAChannel", name |-> "freq_start",
     get |-> <<L("SENS"), P("ch"), L(":FREQ:STAR?")>>,
     set |-> <<L("SENS"), P("ch"), L(":FREQ:STAR "), F("%d")>>,
     validator |-> "strict_range",
     values |-> <<FloatVal(1, -2), IntVal(50)>>,
     set_process |-> "freq_start", get_process |-> "freq_start"] @@ Default

\* lambda v: 1e9 * v (GHz to Hz)
freq_stop_set_process(v) ==
    IF IsNumber(v) THEN Ok(Scale(9, v)) ELSE Raise("TypeError")

\* lambda v: 1e-9 * v (Hz to GHz)
freq_stop_get_process(v) ==
    IF IsNumber(v) THEN Ok(Scale(-9, v)) ELSE Raise("TypeError")

freq_stop ==
    [owner |-> "VNAChannel", name |-> "freq_stop",
     get |-> <<L("SENS"), P("ch"), L(":FREQ:STOP?")>>,
     set |-> <<L("SENS"), P("ch"), L(":FREQ:STOP "), F("%d")>>,
     validator |-> "strict_range",
     values |-> <<FloatVal(1, -2), IntVal(50)>>,
     set_process |-> "freq_stop", get_process |-> "freq_stop"] @@ Default

meas_ports ==
    [owner |-> "VNAChannel", name |-> "meas_ports",
     set |-> <<L("CALC"), P("ch"), L(":PAR:DEF:SGR "), F("%s")>>,
     validator |-> "strict_discrete_set",
     values |-> <<StrVal("1"), StrVal("2"), StrVal("1,2")>>] @@ Default

trigger_sequence ==
    [owner |-> "VNAChannel", name |-> "trigger_sequence",
     get |-> <<L("TRIG"), P("ch"), L(":SEQ:LINK?")>>,
     set |-> <<L("TRIG"), P("ch"), L(":SEQ:LINK "), F("%s")>>,
     validator |-> "strict_discrete_set",
     values |-> <<StrVal("SWE"), StrVal("SEG"), StrVal("POIN"), StrVal("PPO")>>] @@ Default

VNAChannel_trigger_source ==
    [owner |-> "VNAChannel", name |-> "trigger_source",
     get |-> <<L("TRIG"), P("ch"), L(":SEQ:SOUR?")>>,
     set |-> <<L("TRIG"), P("ch"), L(":SEQ:SOUR "), F("%s")>>,
     validator |-> "strict_discrete_set",
     values |-> <<StrVal("IMM"), StrVal("EXT"), StrVal("TIM"), StrVal("MAN"), StrVal("PGEN")>>] @@ Default

\* lambda v: 1e-3 * v (ms to s)
trigger_timer_set_process(v) ==
    IF IsNumber(v) THEN Ok(Scale(-3, v)) ELSE Raise("TypeError")

trigger_timer ==
    [owner |-> "VNAChannel", name |-> "trigger_timer",
     get |-> <<L("TRIG"), P("ch"), L(":SEQ:TIM?")>>,
     set |-> <<L("TRIG"), P("ch"), L(":SEQ:TIM "), F("%d")>>,
     validator |-> "strict_range",
     values |-> <<FloatVal(1, -2), IntVal(13680000)>>,
     set_process |-> "trigger_timer"] @@ Default

-----------------------------------------------------------------------------
(* zva50.py: the declarations of VNAChannel.ChannelTrace (placeholder "tr") *)

\* the declaration with the channel field written with single braces
measurement_single_brace ==
    [owner |-> "ChannelTrace", name |-> "measurement",
     get |-> <<L("CALC"), P("ch"), L(":PAR:MEAS? 'Trc"), P("tr"), L("'")>>,
     set |-> <<L("CALC"), P("ch"), L(":PAR:MEAS 'Trc"), P("tr"), L("', '"),
               F("%s"), L("'")>>,
     validator |-> "strict_discrete_set",
     values |-> <<StrVal("S11"), StrVal("S12"), StrVal("S21"), StrVal("S22"),
                  StrVal("Z-S11"), StrVal("Z-S12"), StrVal("Z-S21"), StrVal("Z-S22")>>] @@ Default

measurement ==
    [owner |-> "ChannelTrace", name |-> "measurement",
     get |-> <<L("CALC"), PP("ch"), L(":PAR:MEAS? 'Trc"), P("tr"), L("'")>>,
     set |-> <<L("CALC"), PP("ch"), L(":PAR:MEAS 'Trc"), P("tr"), L("', '"),
               F("%s"), L("'")>>,
     validator |-> "strict_discrete_set",
     values |-> <<StrVal("S11"), StrVal("S12"), StrVal("S21"), StrVal("S22"),
                  StrVal("Z-S11"), StrVal("Z-S12"), StrVal("Z-S21"), StrVal("Z-S22")>>] @@ Default

format ==
    [owner |-> "ChannelTrace", name |-> "format",
     get |-> <<L("CALC"), PP("ch"), L(":PAR:SEL 'Trc"), P("tr"), L("'; :CALC"),
               PP("ch"), L(":FORM?")>>,
     set |-> <<L("CALC"), PP("ch"), L(":PAR:SEL 'Trc"), P("tr"), L("'; :CALC"),
               PP("ch"), L(":FORM "), F("%s")>>,
     validator |-> "strict_discrete_set",
     values |-> <<StrVal("MLIN"), StrVal("MLOG"), StrVal("UPH"), StrVal("PHAS"),
                  StrVal("SMIT"), StrVal("REAL"), StrVal("IMAG"), StrVal("POL"),
                  StrVal("ISM"), StrVal("GDEL"), StrVal("SWR")>>] @@ Default

data_raw ==
    [owner |-> "ChannelTrace", name |-> "data_raw",
     get |-> <<L("CALC"), PP("ch"), L(":PAR:SEL 'Trc"), P("tr"),
               L("'; :CALC:DATA? SDAT; *WAI")>>] @@ Default

data_formated ==
    [owner |-> "ChannelTrace", name |-> "data_formated",
     get |-> <<L("CALC"), PP("ch"), L(":PAR:SEL 'Trc"), P("tr"),
               L("'; :CALC:DATA? FDAT; *WAI")>>] @@ Default

\* ChannelTrace.assign_trace_to_window(wnd): the message it writes
assign_trace_to_window(wnd) ==
    <<L("DISP:WIND" \o wnd \o ":TRAC:EFE 'Trc"), P("tr"), L("'")>>

-----------------------------------------------------------------------------
(* The accessor pair of a declaration, and the way to the transport *)

SetProcess(d, v) ==
    CASE d.set_process = "cw_frequency"  -> cw_frequency_set_process(v)
      [] d.set_process = "freq_start"    -> freq_start_set_process(v)
      [] d.set_process = "freq_stop"     -> freq_stop_set_process(v)
      [] d.set_process = "trigger_timer" -> trigger_timer_set_process(v)
      [] OTHER                           -> Ok(v)

GetProcess(d, v) ==
    CASE d.get_process = "operating_mode" -> operating_mode_get_process(v)
      [] d.get_process = "TestErrorCode"  -> TestErrorCode(v)
      [] d.get_process = "freq_start"     -> freq_start_get_process(v)
      [] d.get_process = "freq_stop"      -> freq_stop_get_process(v)
      [] OTHER                            -> Ok(v)

\* the conversion the set command template asks for
FmtOf(tpl) == (CHOOSE i \in 1..Len(tpl) : IsFmt(tpl[i])) 

\* fset: validate, convert, map, format; the first failure ends the call
\* before anything is written
fset(d, value) ==
    LET a == Validate(d, value) IN
    IF ~a.ok THEN a ELSE
    LET b == SetProcess(d, a.v) IN
    IF ~b.ok THEN b ELSE
    LET c == IF d.map_values THEN DictLookup(d, b.v) ELSE b IN
    IF ~c.ok THEN c ELSE
    LET f == Format(d.set[FmtOf(d.set)].fmt, c.v) IN
    IF ~f.ok THEN f ELSE Ok([cmd |-> d.set, arg |-> f.v, src |-> a.v])

\* values(): one response line is cast; text the cast rejects stays a str
Cast(d, w) ==
    LET c == IF d.cast = "int" THEN CastInt(w) ELSE CastFloat(w)
    IN  IF c.ok THEN c.v ELSE Text(w)

\* fget: cast, get_process, then the inverse of the value map
fget(d, w) ==
    LET g == GetProcess(d, Cast(d, w)) IN
    IF ~g.ok THEN g
    ELSE IF d.map_values THEN DictInverse(d, g.v)
    ELSE g

\* str.format_map({placeholder: id}): {placeholder} becomes the id, a doubled
\* brace loses one level, any other single-brace field is a KeyError
insert_id(command, placeholder, id) ==
    IF \E i \in 1..Len(command) :
          /\ ~IsLit(command[i]) /\ ~IsFmt(command[i])
          /\ command[i].esc = 0 /\ command[i].ph # placeholder
    THEN Raise("KeyError")
    ELSE Ok([i \in 1..Len(command) |->
                IF IsLit(command[i]) \/ IsFmt(command[i]) THEN command[i]
                ELSE IF command[i].esc = 0 THEN L(id)
                ELSE [ph |-> command[i].ph, esc |-> command[i].esc - 1]])

\* Channel.write hands the command with its own id inserted to its parent;
\* path lists the units from the sender up to (not including) the instrument
RECURSIVE Resolve(_, _)
Resolve(path, command) ==
    IF path = <<>> THEN Ok(command)
    ELSE LET r == insert_id(command, Head(path).ph, Head(path).id)
         IN  IF ~r.ok THEN r ELSE Resolve(Tail(path), r.v)

\* the text of a command as the instrument writes it
RECURSIVE Render(_)
Render(command) ==
    IF command = <<>> THEN ""
    ELSE LET tok == Head(command)
             txt == IF IsLit(tok) THEN tok.lit
                    ELSE IF IsFmt(tok) THEN tok.fmt
                    ELSE IF tok.esc = 0 THEN "{" \o tok.ph \o "}"
                    ELSE "{{" \o tok.ph \o "}}"
         IN  txt \o Render(Tail(command))

Line(command, arg, src) == [cmd |-> Render(command), arg |-> arg, src |-> src]

VNAChannel_path(ch) == <<[ph |-> "ch", id |-> ToString(ch)]>>

\* a trace tr of channel ch: the trace fills {tr}, then its channel fills {ch}
ChannelTrace_path(ch, tr) == <<[ph |-> "tr", id |-> tr]>> \o VNAChannel_path(ch)

-----------------------------------------------------------------------------
(* Property accesses on one declaration of one unit.  An accessor reads only *)
(* its own declaration and the transport, so a behaviour follows the         *)
(* declaration and unit chosen at the start.                                 *)

KepcoControls ==
    {"confidence_test", "bop_test", "operating_mode", "current_setpoint", "voltage_setpoint", "output_enabled",
     "output_mode", "trigger_source", "trigger_voltage", "trigger_current",
     "trigger_continuous", "voltage_protect_limit", "current_protect_limit",
     "voltage_limit", "current_limit"}

VNAChannelControls ==
    {"power", "if_bandwidth", "selective_bandwidth", "sweep_continuity", "sweep_number",
     "sweep_counter", "scope_single_sweep", "sweep_points", "sweep_type", "cw_frequency",
     "avg_active", "avg_number", "freq_start", "freq_stop", "meas_ports",
     "trigger_sequence", "trigger_source", "trigger_timer"}

Keys ==
    {[owner |-> "KepcoBOP5020", name |-> n] : n \in KepcoControls}
        \cup {[owner |-> "VNAChannel", name |-> n] : n \in VNAChannelControls}

\* the declaration a class holds under a name
Declaration(k) ==
    CASE k.owner = "KepcoBOP5020" /\ k.name = "confidence_test" -> confidence_test
      [] k.owner = "KepcoBOP5020" /\ k.name = "bop_test" -> bop_test
      [] k.owner = "KepcoBOP5020" /\ k.name = "operating_mode" -> operating_mode
      [] k.owner = "KepcoBOP5020" /\ k.name = "current_setpoint" -> current_setpoint
      [] k.owner = "KepcoBOP5020" /\ k.name = "voltage_setpoint" -> voltage_setpoint
      [] k.owner = "KepcoBOP5020" /\ k.name = "output_enabled" -> output_enabled
      [] k.owner = "KepcoBOP5020" /\ k.name = "output_mode" -> output_mode
      [] k.owner = "KepcoBOP5020" /\ k.name = "trigger_source" -> trigger_source
      [] k.owner = "KepcoBOP5020" /\ k.name = "trigger_voltage" -> trigger_voltage
      [] k.owner = "KepcoBOP5020" /\ k.name = "trigger_current" -> trigger_current
      [] k.owner = "KepcoBOP5020" /\ k.name = "trigger_continuous" -> trigger_continuous
      [] k.owner = "KepcoBOP5020" /\ k.name = "voltage_protect_limit" -> voltage_protect_limit
      [] k.owner = "KepcoBOP5020" /\ k.name = "current_protect_limit" -> current_protect_limit
      [] k.owner = "KepcoBOP5020" /\ k.name = "voltage_limit" -> voltage_limit
      [] k.owner = "KepcoBOP5020" /\ k.name = "current_limit" -> current_limit
      [] k.owner = "VNAChannel" /\ k.name = "power" -> power
      [] k.owner = "VNAChannel" /\ k.name = "if_bandwidth" -> if_bandwidth
      [] k.owner = "VNAChannel" /\ k.name = "selective_bandwidth" -> selective_bandwidth
      [] k.owner = "VNAChannel" /\ k.name = "sweep_continuity" -> sweep_continuity
      [] k.owner = "VNAChannel" /\ k.name = "sweep_number" -> sweep_number
      [] k.owner = "VNAChannel" /\ k.name = "sweep_counter" -> sweep_counter
      [] k.owner = "VNAChannel" /\ k.name = "scope_single_sweep" -> scope_single_sweep
      [] k.owner = "VNAChannel" /\ k.name = "sweep_points" -> sweep_points
      [] k.owner = "VNAChannel" /\ k.name = "sweep_type" -> sweep_type
      [] k.owner = "VNAChannel" /\ k.name = "cw_frequency" -> cw_frequency
      [] k.owner = "VNAChannel" /\ k.name = "avg_active" -> avg_active
      [] k.owner = "VNAChannel" /\ k.name = "avg_number" -> avg_number
      [] k.owner = "VNAChannel" /\ k.name = "freq_start" -> freq_start
      [] k.owner = "VNAChannel" /\ k.name = "freq_stop" -> freq_stop
      [] k.owner = "VNAChannel" /\ k.name = "meas_ports" -> meas_ports
      [] k.owner = "VNAChannel" /\ k.name = "trigger_sequence" -> trigger_sequence
      [] k.owner = "VNAChannel" /\ k.name = "trigger_source" -> VNAChannel_trigger_source
      [] k.owner = "VNAChannel" /\ k.name = "trigger_timer" -> trigger_timer
      [] k.owner = "ChannelTrace" /\ k.name = "measurement" -> measurement
      [] k.owner = "ChannelTrace" /\ k.name = "format" -> format
      [] k.owner = "ChannelTrace" /\ k.name = "data_raw" -> data_raw
      [] k.owner = "ChannelTrace" /\ k.name = "data_formated" -> data_formated

\* the declaration a behaviour exercises
Decl == Declaration(prop)

Paths(d) ==
    IF d.owner = "VNAChannel" THEN {VNAChannel_path(ch) : ch \in 1..MaxChannels}
    ELSE {<<>>}

\* candidate values of a set: the bounds, a value beyond each, values with a
\* fraction and with more than six digits; for an enumeration its members or
\* keys, a foreign word and small integers
Doubled(v) == FloatVal(2 * Mant(v), Expo(v))
Halved(v) == FloatVal(5 * Mant(v), Expo(v) - 1)
Beyond(v, up) ==
    IF (Sgn(v) > 0) = up THEN Doubled(v) ELSE IF Sgn(v) = 0 THEN IntVal(IF up THEN 1 ELSE -1) ELSE Halved(v)

NumberPool ==
    {FloatVal(125, -1), FloatVal(-125, -1), FloatVal(24, -1), FloatVal(1234567, -5)}

IsRangeList(d) == d.kind = "list" /\ Len(d.values) = 2 /\ IsNumber(d.values[1])

Candidates(d) ==
    IF IsRangeList(d)
    THEN LET bs == {d.values[i] : i \in {j \in 1..Len(d.values) : IsNumber(d.values[j])}}
         IN  bs \cup NumberPool
                \cup {Beyond(b, TRUE) : b \in bs} \cup {Beyond(b, FALSE) : b \in bs}
    ELSE Members(d) \cup {StrVal("BOGUS"), IntVal(1), IntVal(2)}

\* candidate response lines of the device
Responses ==
    {Numeral(IntVal(0), TRUE), Numeral(IntVal(1), TRUE), Numeral(IntVal(-1), TRUE),
     Numeral(IntVal(2), TRUE), Numeral(IntVal(3), TRUE), Numeral(FloatVal(7, -1), FALSE),
     Numeral(FloatVal(1, 10), FALSE), Word("ON"), Word("VOLT")}

\* the device keeps the value of the last set command it received
Stored(lines) ==
    LET sets == {i \in 1..Len(lines) : lines[i].src # None}
    IN  IF sets = {} THEN None
        ELSE lines[CHOOSE i \in sets : \A j \in sets : j <= i].arg

NoCall == [op |-> "none", arg |-> None, outcome |-> "ok", ret |-> None,
           before |-> 0, echo |-> FALSE, sent |-> None]

InitUnits ==
    /\ channels = <<>>
    /\ created = {}
    /\ call = [name |-> "none", pc |-> "done"]
    /\ reads = 0
    /\ faults = 0

InitProperty ==
    /\ prop \in Keys
    /\ unit \in Paths(prop)
    /\ wire = <<>>
    /\ last = NoCall
    /\ InitUnits

\* instrument.<prop> = value
Assign(d, value) ==
    /\ d.set # <<>>
    /\ Len(wire) < MaxWire
    /\ \E r \in {fset(d, value)} :
       \E c \in {IF r.ok THEN Resolve(unit, r.v.cmd) ELSE r} :
           IF r.ok /\ c.ok
           THEN /\ wire' = Append(wire, Line(c.v, r.v.arg, r.v.src))
                /\ last' = [op |-> "set", arg |-> value, outcome |-> "ok",
                            ret |-> None, before |-> Len(wire), echo |-> FALSE,
                            sent |-> value]
           ELSE /\ wire' = wire
                /\ last' = [op |-> "set", arg |-> value, outcome |-> c.err,
                            ret |-> None, before |-> Len(wire), echo |-> FALSE,
                            sent |-> last.sent]
    /\ UNCHANGED <<prop, unit, channels, created, call, reads, faults>>

\* instrument.<prop> with the device answering w
Ask(d, w, echo) ==
    /\ d.get # <<>>
    /\ Len(wire) < MaxWire
    /\ \E c \in {Resolve(unit, d.get)} :
       \E r \in {IF c.ok THEN fget(d, w) ELSE c} :
           /\ wire' = IF c.ok THEN Append(wire, Line(c.v, None, None)) ELSE wire
           /\ last' = [op |-> "get", arg |-> w,
                       outcome |-> IF r.ok THEN "ok" ELSE r.err,
                       ret |-> IF r.ok THEN r.v ELSE None,
                       before |-> Len(wire), echo |-> echo, sent |-> last.sent]
    /\ UNCHANGED <<prop, unit, channels, created, call, reads, faults>>

PropertySet == \E value \in Candidates(Decl) : Assign(Decl, value)

PropertyGet == \E w \in Responses : Ask(Decl, w, FALSE)

\* the device echoes the value carried by the last set command
PropertyGetEcho ==
    /\ Stored(wire) # None
    /\ last.op = "set" /\ last.outcome = "ok"
    /\ Ask(Decl, Stored(wire), TRUE)

NextProperty == PropertySet \/ PropertyGet \/ PropertyGetEcho

Spec == InitProperty /\ [][NextProperty]_vars

-----------------------------------------------------------------------------
(* Properties of the accessors *)

NumericControls ==
    {[owner |-> "KepcoBOP5020", name |-> n] :
        n \in {"current_setpoint", "voltage_setpoint", "trigger_voltage",
               "trigger_current", "voltage_protect_limit", "current_protect_limit",
               "voltage_limit", "current_limit"}}
    \cup {[owner |-> "VNAChannel", name |-> n] :
        n \in {"power", "if_bandwidth", "sweep_number", "sweep_points",
               "cw_frequency", "freq_start", "freq_stop", "trigger_timer"}}

OutOfBounds(d, v) == IsNumber(v) /\ IsComparable(d.values) /\ ~InRange(v, d.values)
InBounds(d, v) == IsNumber(v) /\ IsComparable(d.values) /\ InRange(v, d.values)

Rejected == last.outcome = "ValueError" /\ Len(wire) = last.before

NearestBound(d, v) == IF NumLess(MaxOf(d.values), v) THEN MaxOf(d.values) ELSE MinOf(d.values)

Clamped ==
    /\ last.outcome = "ok"
    /\ Len(wire) = last.before + 1
    /\ NumEq(wire[Len(wire)].src, NearestBound(Decl, last.arg))

\* C1 as stated: setting any numeric control of either driver to a value
\* outside its declared bounds raises a validation error and writes nothing.
C1_OutOfBoundsRejectedEverywhere ==
    (last.op = "set" /\ prop \in NumericControls /\ OutOfBounds(Decl, last.arg))
        => Rejected

\* C1 as amended: an out-of-bounds value is rejected with a validation error
\* and no write by the numeric controls of VNAChannel; the numeric controls of
\* KepcoBOP5020 clamp it to the nearest bound and write that in one command.
C1_RejectedOrClamped ==
    (last.op = "set" /\ prop \in NumericControls /\ OutOfBounds(Decl, last.arg))
        => IF prop.owner = "VNAChannel" THEN Rejected ELSE Clamped

C1_Witness ==
    /\ last.op = "set" /\ prop.name = "power" /\ OutOfBounds(Decl, last.arg)
    /\ Rejected /\ Len(wire) = 1

\* the value a written set command was formatted from, and the value on the
\* wire where no unit conversion intervenes, are what the declaration allows
DeclaredValue(d, line) ==
    IF IsRangeList(d)
    THEN /\ InBounds(d, line.src)
         /\ d.set_process = "identity" =>
                line.arg.t = "numeral" /\ InBounds(d, Denotes(line.arg))
    ELSE IF d.kind = "dict"
    THEN \E i \in 1..Len(d.values) :
            /\ PyEq(d.values[i].k, line.src)
            /\ line.arg = Format(d.set[FmtOf(d.set)].fmt, d.values[i].v).v
    ELSE \E x \in Members(d) : PyEq(x, line.src) /\ line.arg = FormatS(x).v

\* C2: every set command on the wire carries a value inside the declared
\* range (before unit conversion) or a member / mapped token of the declared
\* enumeration.
C2_OnlyDeclaredValuesWritten ==
    \A i \in 1..Len(wire) : wire[i].src # None => DeclaredValue(Decl, wire[i])

C2_Witness ==
    /\ Len(wire) = 2 /\ wire[1].src # None /\ wire[2].src # None
    /\ last.op = "set" /\ OutOfBounds(Decl, last.arg) /\ last.outcome = "ok"

\* the unit conversion a control documents: GHz to Hz, ms to s
DeclaredShift(p) ==
    IF p.name \in {"cw_frequency", "freq_start", "freq_stop"} THEN 9
    ELSE IF p.name = "trigger_timer" THEN -3
    ELSE 0

\* v converted to the wire unit, formatted as the set command formats it, and
\* converted back
ReadBack(p, d, v) ==
    Scale(-DeclaredShift(p),
          Denotes(Format(d.set[FmtOf(d.set)].fmt, Scale(DeclaredShift(p), v)).v))

\* C3 as stated: a numeric control set to v inside its bounds and then read
\* from a device echoing the set command's value returns v, up to the
\* declared unit conversion and formatting precision.
C3_SetThenGetReturnsValue ==
    (last.op = "get" /\ last.echo /\ prop \in NumericControls
        /\ InBounds(Decl, last.sent))
        => /\ last.outcome = "ok"
           /\ IsNumber(last.ret)
           /\ NumEq(last.ret, ReadBack(prop, Decl, last.sent))

FrequencyControls == {"cw_frequency", "freq_start", "freq_stop"}

\* C4 as stated: each frequency control writes f * 1e9 for f GHz in
\* [0.01, 50] and returns h * 1e-9 for a response of h Hz.
C4_FrequencyConvertedBothWays ==
    (prop.owner = "VNAChannel" /\ prop.name \in FrequencyControls) =>
        /\ (last.op = "set" /\ IsNumber(last.arg)
              /\ InRange(last.arg, <<FloatVal(1, -2), IntVal(50)>>))
            => /\ last.outcome = "ok"
               /\ Len(wire) = last.before + 1
               /\ wire[Len(wire)].arg.t = "numeral"
               /\ NumEq(Denotes(wire[Len(wire)].arg), Scale(9, last.arg))
        /\ (last.op = "get" /\ last.arg.t = "numeral")
            => /\ last.outcome = "ok"
               /\ NumEq(last.ret, Scale(-9, Denotes(last.arg)))

\* C10 as stated: reading operating_mode returns VOLT for a response of 0,
\* CURR for 1, and fails for every other response.
C10_UnmappedModeRejected ==
    (prop = [owner |-> "KepcoBOP5020", name |-> "operating_mode"] /\ last.op = "get")
        => IF last.arg = Numeral(IntVal(0), TRUE)
           THEN last.outcome = "ok" /\ last.ret = StrVal("VOLT")
           ELSE IF last.arg = Numeral(IntVal(1), TRUE)
           THEN last.outcome = "ok" /\ last.ret = StrVal("CURR")
           ELSE last.outcome # "ok"

-----------------------------------------------------------------------------
(* zva50.py: channels and traces of the ZVA.  In this specification the spy *)
(* is cleared when a helper or accessor is called, so wire holds the lines  *)
(* of the call in progress or of the last call.                             *)

NoProperty == [owner |-> "none", name |-> "none"]

InitZVA ==
    /\ prop = NoProperty
    /\ unit = <<>>
    /\ wire = <<>>
    /\ last = NoCall
    /\ InitUnits

Idle == call.pc \in {"done", "raised"}

\* add_child(cls, id): a fresh handle is registered under id, replacing any
\* handle already there
add_child(mapping, id, child) == (id :> child) @@ mapping

\* ZVA.create_zva_channel(numb): the message it writes
create_zva_channel(numb) == <<L("CONF:CHAN" \o ToString(numb) \o ":STAT ON")>>

\* ZVA.delete_zva_channel(numb): the message it writes
delete_zva_channel_message(numb) == <<L("CONF:CHAN" \o ToString(numb) \o ":STAT OFF")>>

\* VNAChannel.create_zva_trace(trc_id, measurement): the message it writes and
\* the trace name that message gives the device
create_zva_trace(trc_id, meas) ==
    LET name == "Trc" \o trc_id
    IN  [name |-> name,
         message |-> <<L("CALC"), P("ch"),
                       L(":PAR:SDEF '" \o name \o "', '" \o meas \o "'")>>]

\* str(self.id) + "_" + str(i)
trace_id(ch, i) == ToString(ch) \o "_" \o ToString(i)

\* the record of a channel whose creation command reached the device
ChannelCreated(k) == [unit |-> <<k>>, name |-> ToString(k)]

\* ZVA.define_default_channels(channel_number): entry
define_default_channels(channel_number) ==
    /\ Idle
    /\ call' = [name |-> "define_default_channels",
                pc |-> IF channel_number < 1 THEN "while" ELSE "for",
                channel_number |-> channel_number, channel |-> 0]
    /\ wire' = <<>>
    /\ last' = NoCall
    /\ UNCHANGED <<prop, unit, channels, created, reads, faults>>

\* while channel_number < 1: channel_number = int(input(...))
define_default_channels_input(answer) ==
    /\ call.name = "define_default_channels" /\ call.pc = "while"
    /\ call' = [call EXCEPT !.channel_number = answer,
                            !.pc = IF answer < 1 THEN "while" ELSE "for"]
    /\ UNCHANGED <<prop, unit, wire, last, channels, created, reads, faults>>

\* a loop step that goes on to the activation without registering a handle
define_default_channels_add_child_skipped ==
    /\ call.name = "define_default_channels" /\ call.pc = "for"
    /\ call' = [call EXCEPT !.channel = @ + 1, !.pc = "create"]
    /\ UNCHANGED <<prop, unit, wire, last, channels, created, reads, faults>>

\* for channel in channels_list: self.add_child(VNAChannel, channel)
define_default_channels_add_child ==
    /\ call.name = "define_default_channels" /\ call.pc = "for"
    /\ channels' = add_child(channels, call.channel + 1, {})
    /\ call' = [call EXCEPT !.channel = @ + 1, !.pc = "create"]
    /\ UNCHANGED <<prop, unit, wire, last, created, reads, faults>>

\* self.create_zva_channel(channel); the transport accepts the line or raises
define_default_channels_create(accepted) ==
    /\ call.name = "define_default_channels" /\ call.pc = "create"
    /\ IF accepted
       THEN /\ wire' = Append(wire, Line(create_zva_channel(call.channel), None, None))
            /\ created' = created \cup {ChannelCreated(call.channel)}
            /\ call' = [call EXCEPT !.pc = IF call.channel = call.channel_number
                                           THEN "done" ELSE "for"]
       ELSE /\ call' = [call EXCEPT !.pc = "raised"]
            /\ UNCHANGED <<wire, created>>
    /\ faults' = IF accepted THEN faults ELSE faults + 1
    /\ UNCHANGED <<prop, unit, last, channels, reads>>

\* ZVA.delete_zva_channel(numb)
delete_zva_channel(numb, accepted) ==
    /\ Idle
    /\ call' = [name |-> "delete_zva_channel",
                pc |-> IF accepted THEN "done" ELSE "raised", numb |-> numb]
    /\ wire' = IF accepted THEN <<Line(delete_zva_channel_message(numb), None, None)>>
               ELSE <<>>
    /\ last' = NoCall
    /\ faults' = IF accepted THEN faults ELSE faults + 1
    /\ UNCHANGED <<prop, unit, channels, created, reads>>

\* VNAChannel.define_default_traces(measurements) of channel ch: entry
define_default_traces(ch, measurements) ==
    /\ Idle
    /\ ch \in DOMAIN channels
    /\ call' = [name |-> "define_default_traces",
                pc |-> IF Len(measurements) = 0 THEN "done" ELSE "for",
                ch |-> ch, measurements |-> measurements, i |-> 0, trc_id |-> ""]
    /\ wire' = <<>>
    /\ last' = NoCall
    /\ UNCHANGED <<prop, unit, channels, created, reads, faults>>

\* traces_id_list.append(...); self.add_child(VNAChannel.ChannelTrace, id, prefix="tr_")
define_default_traces_add_child ==
    /\ call.name = "define_default_traces" /\ call.pc = "for"
    /\ LET id == trace_id(call.ch, call.i + 1)
       IN  /\ channels' = [channels EXCEPT
                              ![call.ch] = DOMAIN add_child([k \in @ |-> TRUE], id, TRUE)]
           /\ call' = [call EXCEPT !.i = @ + 1, !.trc_id = id, !.pc = "create"]
    /\ UNCHANGED <<prop, unit, wire, last, created, reads, faults>>

\* self.create_zva_trace(traces_id_list[i-1], measurements[i-1])
define_default_traces_create(accepted) ==
    /\ call.name = "define_default_traces" /\ call.pc = "create"
    /\ LET m == create_zva_trace(call.trc_id, call.measurements[call.i])
           c == Resolve(VNAChannel_path(call.ch), m.message)
       IN  IF accepted /\ c.ok
           THEN /\ wire' = Append(wire, Line(c.v, None, None))
                /\ created' = created \cup
                        {[unit |-> <<call.ch, call.trc_id>>, name |-> m.name]}
                /\ call' = [call EXCEPT !.pc = IF call.i = Len(call.measurements)
                                               THEN "done" ELSE "for"]
           ELSE /\ call' = [call EXCEPT !.pc = "raised"]
                /\ UNCHANGED <<wire, created>>
    /\ faults' = IF accepted THEN faults ELSE faults + 1
    /\ UNCHANGED <<prop, unit, last, channels, reads>>

\* a write of a helper is refused by the transport at most MaxFaults times
Acceptance == IF faults < MaxFaults THEN BOOLEAN ELSE {TRUE}

TraceKeys ==
    {[owner |-> "ChannelTrace", name |-> n] :
        n \in {"measurement", "format", "data_raw", "data_formated"}}

TraceCandidates == {StrVal("S21"), StrVal("MLOG"), StrVal("BOGUS")}

TraceResponses == {Word("S21"), Numeral(IntVal(1), TRUE)}

Windows == {"1", "2"}

\* trace.<d.name> = value on trace tr of channel ch
trace_set(ch, tr, d, value) ==
    /\ Idle
    /\ ch \in DOMAIN channels /\ tr \in channels[ch]
    /\ d.set # <<>>
    /\ \E r \in {fset(d, value)} :
       \E c \in {IF r.ok THEN Resolve(ChannelTrace_path(ch, tr), r.v.cmd) ELSE r} :
           /\ wire' = IF c.ok THEN <<Line(c.v, r.v.arg, r.v.src)>> ELSE <<>>
           /\ last' = [op |-> "set", arg |-> value,
                       outcome |-> IF c.ok THEN "ok" ELSE c.err,
                       ret |-> None, before |-> 0, echo |-> FALSE, sent |-> None]
    /\ call' = [name |-> d.name, pc |-> "done", ch |-> ch, tr |-> tr]
    /\ UNCHANGED <<prop, unit, channels, created, reads, faults>>

\* trace.<d.name> on trace tr of channel ch, the device answering w
trace_get(ch, tr, d, w) ==
    /\ Idle
    /\ ch \in DOMAIN channels /\ tr \in channels[ch]
    /\ \E c \in {Resolve(ChannelTrace_path(ch, tr), d.get)} :
       \E r \in {IF c.ok THEN fget(d, w) ELSE c} :
           /\ wire' = IF c.ok THEN <<Line(c.v, None, None)>> ELSE <<>>
           /\ last' = [op |-> "get", arg |-> w,
                       outcome |-> IF r.ok THEN "ok" ELSE r.err,
                       ret |-> IF r.ok THEN r.v ELSE None,
                       before |-> 0, echo |-> FALSE, sent |-> None]
    /\ call' = [name |-> d.name, pc |-> "done", ch |-> ch, tr |-> tr]
    /\ UNCHANGED <<prop, unit, channels, created, reads, faults>>

\* trace.assign_trace_to_window(wnd) on trace tr of channel ch
trace_assign_trace_to_window(ch, tr, wnd) ==
    /\ Idle
    /\ ch \in DOMAIN channels /\ tr \in channels[ch]
    /\ \E c \in {Resolve(ChannelTrace_path(ch, tr), assign_trace_to_window(wnd))} :
           /\ wire' = IF c.ok THEN <<Line(c.v, None, None)>> ELSE <<>>
           /\ last' = [op |-> "call", arg |-> Text(wnd),
                       outcome |-> IF c.ok THEN "ok" ELSE c.err,
                       ret |-> None, before |-> 0, echo |-> FALSE, sent |-> None]
    /\ call' = [name |-> "assign_trace_to_window", pc |-> "done", ch |-> ch, tr |-> tr]
    /\ UNCHANGED <<prop, unit, channels, created, reads, faults>>

\* measurement lists handed to define_default_traces: the first n of the
\* scattering parameters
Measurements == <<"S11", "S21", "S12", "S22">>

MeasurementLists == {SubSeq(Measurements, 1, n) : n \in 0..MaxTraces}

NextZVA ==
    \/ \E n \in 0..MaxChannels : define_default_channels(n)
    \/ \E answer \in 0..MaxChannels : define_default_channels_input(answer)
    \/ define_default_channels_add_child
    \/ \E accepted \in Acceptance : define_default_channels_create(accepted)
    \/ \E numb \in 1..MaxChannels, accepted \in Acceptance :
          delete_zva_channel(numb, accepted)
    \/ \E ch \in 1..MaxChannels, ms \in MeasurementLists : define_default_traces(ch, ms)
    \/ define_default_traces_add_child
    \/ \E accepted \in Acceptance : define_default_traces_create(accepted)

SpecZVA == InitZVA /\ [][NextZVA]_vars

-----------------------------------------------------------------------------
(* zva50.py: the traces of one channel.  A VNAChannel handle reads only its  *)
(* own id and children, so a behaviour follows the channel chosen at the     *)
(* start, on a ZVA whose channels define_default_channels has created.       *)

InitTrace ==
    /\ prop = NoProperty
    /\ unit \in {VNAChannel_path(ch) : ch \in 1..MaxChannels}
    /\ wire = <<>>
    /\ last = NoCall
    /\ channels = [k \in 1..MaxChannels |-> {}]
    /\ created = {ChannelCreated(k) : k \in 1..MaxChannels}
    /\ call = [name |-> "none", pc |-> "done"]
    /\ reads = 0
    /\ faults = 0

\* the channel a behaviour follows
Channel == CHOOSE ch \in 1..MaxChannels : unit = VNAChannel_path(ch)

NextTrace ==
    \/ \E ms \in MeasurementLists : define_default_traces(Channel, ms)
    \/ define_default_traces_add_child
    \/ \E accepted \in Acceptance : define_default_traces_create(accepted)
    \/ \E tr \in channels[Channel], k \in TraceKeys, value \in TraceCandidates :
          \E d \in {Declaration(k)} : trace_set(Channel, tr, d, value)
    \/ \E tr \in channels[Channel], k \in TraceKeys, w \in TraceResponses :
          \E d \in {Declaration(k)} : trace_get(Channel, tr, d, w)
    \/ \E tr \in channels[Channel], wnd \in Windows :
          trace_assign_trace_to_window(Channel, tr, wnd)

SpecTrace == InitTrace /\ [][NextTrace]_vars

-----------------------------------------------------------------------------
(* Properties of the channel and trace helpers *)

\* every key of the child mapping, at either level, names a sub-unit whose
\* creation command reached the device
NoOrphan ==
    \A k \in DOMAIN channels :
        /\ ChannelCreated(k) \in created
        /\ \A t \in channels[k] : \E e \in created : e.unit = <<k, t>>

\* C5 as stated: delete_zva_channel(k), for a channel k that
\* define_default_channels created, writes CONF:CHAN<k>:STAT OFF exactly once
\* and leaves k out of the child mapping.
C5_DeleteRemovesHandle ==
    IF call.name = "delete_zva_channel" /\ call.pc = "done"
    THEN ChannelCreated(call.numb) \in created
            => /\ wire = <<[cmd |-> "CONF:CHAN" \o ToString(call.numb) \o ":STAT OFF",
                            arg |-> None, src |-> None]>>
               /\ call.numb \notin DOMAIN channels
    ELSE TRUE

\* the part of C5 the helper does keep: one deactivation command, once
DeleteWritesOnce ==
    IF call.name = "delete_zva_channel" /\ call.pc = "done"
    THEN wire = <<[cmd |-> "CONF:CHAN" \o ToString(call.numb) \o ":STAT OFF",
                   arg |-> None, src |-> None]>>
    ELSE TRUE

\* C6 as stated: once a creation command of define_default_channels or
\* define_default_traces has been refused and the helper has ended, every key
\* of the child mapping names a sub-unit whose creation command was written.
C6_NoOrphanAfterFailure ==
    (faults > 0 /\ Idle) => NoOrphan

\* the text a trace accessor or helper puts on the wire for channel c and the
\* device-side trace name trc
SentText(name, op, c, trc, arg) ==
    CASE name = "measurement" /\ op = "get" ->
            "CALC" \o c \o ":PAR:MEAS? '" \o trc \o "'"
      [] name = "measurement" /\ op = "set" ->
            "CALC" \o c \o ":PAR:MEAS '" \o trc \o "', '%s'"
      [] name = "format" /\ op = "get" ->
            "CALC" \o c \o ":PAR:SEL '" \o trc \o "'; :CALC" \o c \o ":FORM?"
      [] name = "format" /\ op = "set" ->
            "CALC" \o c \o ":PAR:SEL '" \o trc \o "'; :CALC" \o c \o ":FORM %s"
      [] name = "data_raw" ->
            "CALC" \o c \o ":PAR:SEL '" \o trc \o "'; :CALC:DATA? SDAT; *WAI"
      [] name = "data_formated" ->
            "CALC" \o c \o ":PAR:SEL '" \o trc \o "'; :CALC:DATA? FDAT; *WAI"
      [] name = "assign_trace_to_window" ->
            "DISP:WIND" \o arg.w \o ":TRAC:EFE '" \o trc \o "'"

TraceOperations ==
    {"measurement", "format", "data_raw", "data_formated", "assign_trace_to_window"}

\* C9: a command sent by trace t of channel c carries c in the channel
\* position and t in the trace position, no placeholder being left or
\* crossed, and names the trace as the creation command of
\* define_default_traces named it.
C9_TracePlaceholdersIndependent ==
    IF call.name \in TraceOperations
    THEN /\ last.outcome # "KeyError"
         /\ (last.op \in {"get", "call"} \/ last.outcome = "ok")
               => /\ Len(wire) = 1
                  /\ wire[1].cmd = SentText(call.name, last.op, ToString(call.ch),
                                            "Trc" \o call.tr, last.arg)
                  /\ \A e \in created :
                        e.unit = <<call.ch, call.tr>>
                           => wire[1].cmd = SentText(call.name, last.op,
                                                     ToString(call.ch), e.name, last.arg)
    ELSE TRUE

C9_Witness ==
    /\ call.name = "format" /\ call.pc = "done"
    /\ last.op = "set" /\ last.outcome = "ok"
    /\ call.ch = 2 /\ call.tr = "2_2"
    /\ [unit |-> <<2, "2_2">>, name |-> "Trc2_2"] \in created
    /\ wire = <<[cmd |-> "CALC2:PAR:SEL 'Trc2_2'; :CALC2:FORM %s",
                 arg |-> Word("MLOG"), src |-> StrVal("MLOG")]>>

-----------------------------------------------------------------------------
(* zva50.py: VNAChannel.single_sweep_vna on one channel.  Each query of     *)
(* sweep_counter is a step, the device answering with any counter value.    *)

\* VNAChannel.clear_avg(): the message it writes
clear_avg == <<L("SENSe"), P("ch"), L(":AVER:CLE")>>

\* VNAChannel.launch_single_sweep(): the message it writes
launch_single_sweep == <<L("INIT"), P("ch"), L(":IMM; *OPC")>>

\* the lines a channel's write or query puts on the wire
ChannelWrites(ch, messages) ==
    [i \in 1..Len(messages) |->
        Line(Resolve(VNAChannel_path(ch), messages[i]).v, None, None)]

\* int(x) of a number
IntOf(v) == Mant(Trunc(v)) * Pow10(Expo(Trunc(v)))

Truthy(v) == v # None /\ (v.t = "bool" => v.b)

\* the device's answer to a sweep_counter query
CounterResponses == {Numeral(IntVal(n), TRUE) : n \in 0..MaxCounter}

Targets == 1..(MaxCounter - 1)

Controls == {None, BoolVal(TRUE), BoolVal(FALSE)}

Idns == {None, StrVal("ZVA")}

InitSweep == InitTrace

\* self.sweep_counter, the device answering w: the query line and the reading
sweep_counter_query(w) ==
    /\ reads < MaxPolls
    /\ reads' = reads + 1
    /\ wire' = wire \o ChannelWrites(call.ch, <<sweep_counter.get>>)
    /\ last' = [op |-> "get", arg |-> w, outcome |-> "ok",
                ret |-> fget(sweep_counter, w).v,
                before |-> Len(wire), echo |-> FALSE, sent |-> None]

\* count = 0; count2 = -1; self.clear_avg(); self.launch_single_sweep()
single_sweep_vna(sweeps, control, idn) ==
    /\ Idle
    /\ call' = [name |-> "single_sweep_vna", pc |-> "while", ch |-> Channel,
                sweeps |-> sweeps, control |-> control, idn |-> idn,
                count |-> 0, count2 |-> -1, polls |-> 0, hit |-> FALSE]
    /\ wire' = ChannelWrites(Channel, <<clear_avg, launch_single_sweep>>)
    /\ last' = NoCall
    /\ reads' = 0
    /\ UNCHANGED <<prop, unit, channels, created, faults>>

\* while self.sweep_counter < sweeps; on leaving the loop, if control: the
\* operand idn + " Freq. sweeps done:" is evaluated before the last query
single_sweep_vna_while(w) ==
    /\ call.name = "single_sweep_vna" /\ call.pc = "while"
    /\ sweep_counter_query(w)
    /\ LET below == NumLess(fget(sweep_counter, w).v, IntVal(call.sweeps))
       IN  call' = [call EXCEPT !.pc = IF below THEN "body"
                                       ELSE IF ~Truthy(call.control) THEN "done"
                                       ELSE IF call.idn = None THEN "raised"
                                       ELSE "print",
                                !.polls = @ + 1,
                                !.hit = @ \/ ~below]
    /\ UNCHANGED <<prop, unit, channels, created, faults>>

\* a loop body that launches the sweep again before reading the counter
single_sweep_vna_body_relaunch(w) ==
    /\ call.name = "single_sweep_vna" /\ call.pc = "body"
    /\ reads < MaxPolls
    /\ reads' = reads + 1
    /\ wire' = wire \o ChannelWrites(call.ch, <<launch_single_sweep, sweep_counter.get>>)
    /\ last' = [op |-> "get", arg |-> w, outcome |-> "ok",
                ret |-> fget(sweep_counter, w).v,
                before |-> Len(wire), echo |-> FALSE, sent |-> None]
    /\ call' = [call EXCEPT !.count = IntOf(fget(sweep_counter, w).v),
                            !.pc = "while", !.polls = @ + 1]
    /\ UNCHANGED <<prop, unit, channels, created, faults>>

\* count = int(self.sweep_counter); if count == count2 + 1 and control == True:
\* print(idn + ...); count2 = count
single_sweep_vna_body(w) ==
    /\ call.name = "single_sweep_vna" /\ call.pc = "body"
    /\ sweep_counter_query(w)
    /\ LET count == IntOf(fget(sweep_counter, w).v)
           printing == count = call.count2 + 1 /\ PyEq(call.control, BoolVal(TRUE))
           below == NumLess(fget(sweep_counter, w).v, IntVal(call.sweeps))
       IN  call' = [call EXCEPT !.count = count,
                                !.count2 = IF printing /\ call.idn # None THEN count ELSE @,
                                !.pc = IF printing /\ call.idn = None THEN "raised"
                                       ELSE "while",
                                !.polls = @ + 1,
                                !.hit = @ \/ ~below]
    /\ UNCHANGED <<prop, unit, channels, created, faults>>

\* print(idn + " Freq. sweeps done:" + str(int(self.sweep_counter)))
single_sweep_vna_print(w) ==
    /\ call.name = "single_sweep_vna" /\ call.pc = "print"
    /\ sweep_counter_query(w)
    /\ call' = [call EXCEPT !.pc = "done"]
    /\ UNCHANGED <<prop, unit, channels, created, faults>>

NextSweep ==
    \/ \E sweeps \in Targets, control \in Controls, idn \in Idns :
          single_sweep_vna(sweeps, control, idn)
    \/ \E w \in CounterResponses : single_sweep_vna_while(w)
    \/ \E w \in CounterResponses : single_sweep_vna_body(w)
    \/ \E w \in CounterResponses : single_sweep_vna_print(w)

SpecSweep == InitSweep /\ [][NextSweep]_vars

-----------------------------------------------------------------------------
(* Properties of single_sweep_vna *)

\* C7 as stated: single_sweep_vna returns only after a sweep_counter reading
\* that is >= sweeps, and once a query made in the loop has returned such a
\* reading the loop makes no further query.
C7_StopsAtFirstReading ==
    /\ []((call.name = "single_sweep_vna" /\ call.pc = "done") => call.hit)
    /\ [][(call.name = "single_sweep_vna" /\ ~Idle /\ call.hit)
             => call'.polls = call.polls]_vars

\* C8: in a call of single_sweep_vna the wire carries the averaging clear,
\* then the sweep launch, each once, and after them nothing but
\* sweep_counter queries, however many times the loop runs.
C8_StartCommandsOnce ==
    IF call.name = "single_sweep_vna"
    THEN /\ Len(wire) = 2 + reads
         /\ wire[1].cmd = "SENSe" \o ToString(call.ch) \o ":AVER:CLE"
         /\ wire[2].cmd = "INIT" \o ToString(call.ch) \o ":IMM; *OPC"
         /\ \A i \in 3..Len(wire) :
               wire[i].cmd = "CALC" \o ToString(call.ch) \o ":DATA:NSW:COUN?"
    ELSE TRUE

C8_Witness ==
    /\ call.name = "single_sweep_vna" /\ call.pc = "done"
    /\ call.ch = 2
    /\ call.polls >= 3
    /\ Len(wire) >= 5
    /\ wire[1].cmd = "SENSe2:AVER:CLE"
    /\ wire[2].cmd = "INIT2:IMM; *OPC"

-----------------------------------------------------------------------------
(* Properties of the mapped and decoded properties of KepcoBOP5020 *)

BooleanControls ==
    {[owner |-> "KepcoBOP5020", name |-> n] : n \in {"output_enabled", "trigger_continuous"}}

\* the wire value the last set command carries
WrittenValue == wire[Len(wire)].arg

WroteOne == last.outcome = "ok" /\ Len(wire) = last.before + 1

WroteNothing == last.outcome # "ok" /\ Len(wire) = last.before

\* C11 as stated: on output_enabled and trigger_continuous, setting True
\* writes one command carrying 1 and setting False one carrying 0, a response
\* 0 reads as False and 1 as True, and every candidate other than the two
\* bools True and False is rejected and nothing is written.
C11_NonBooleanRejected ==
    prop \in BooleanControls =>
        /\ (last.op = "set" /\ last.arg = BoolVal(TRUE))
              => WroteOne /\ WrittenValue = Numeral(IntVal(1), TRUE)
        /\ (last.op = "set" /\ last.arg = BoolVal(FALSE))
              => WroteOne /\ WrittenValue = Numeral(IntVal(0), TRUE)
        /\ (last.op = "set" /\ last.arg \notin {BoolVal(TRUE), BoolVal(FALSE)})
              => WroteNothing
        /\ (last.op = "get" /\ last.arg = Numeral(IntVal(0), TRUE))
              => last.outcome = "ok" /\ last.ret = BoolVal(FALSE)
        /\ (last.op = "get" /\ last.arg = Numeral(IntVal(1), TRUE))
              => last.outcome = "ok" /\ last.ret = BoolVal(TRUE)

\* C11, restated: a candidate equal to True (True, 1) writes one command
\* carrying 1, one equal to False writes one carrying 0; a response 0 reads
\* as False and a response 1 as True; a candidate equal to neither is
\* rejected and nothing is written.
C11_BooleanMapBothWays ==
    prop \in BooleanControls =>
        /\ (last.op = "set" /\ PyEq(last.arg, BoolVal(TRUE)))
              => WroteOne /\ WrittenValue = Numeral(IntVal(1), TRUE)
        /\ (last.op = "set" /\ PyEq(last.arg, BoolVal(FALSE)))
              => WroteOne /\ WrittenValue = Numeral(IntVal(0), TRUE)
        /\ (last.op = "set" /\ ~PyEq(last.arg, BoolVal(TRUE)) /\ ~PyEq(last.arg, BoolVal(FALSE)))
              => WroteNothing
        /\ (last.op = "get" /\ last.arg = Numeral(IntVal(0), TRUE))
              => last.outcome = "ok" /\ last.ret = BoolVal(FALSE)
        /\ (last.op = "get" /\ last.arg = Numeral(IntVal(1), TRUE))
              => last.outcome = "ok" /\ last.ret = BoolVal(TRUE)

C11_Witness ==
    /\ prop = [owner |-> "KepcoBOP5020", name |-> "output_enabled"]
    /\ last.op = "get" /\ last.echo /\ last.sent = IntVal(1)
    /\ last.arg = Numeral(IntVal(1), TRUE)
    /\ last.ret = BoolVal(TRUE)
    /\ wire[1].cmd = "OUTP:CONT OFF; OUTPut %d"
    /\ wire[1].arg = Numeral(IntVal(1), TRUE)

SelfTests ==
    {[owner |-> "KepcoBOP5020", name |-> n] : n \in {"confidence_test", "bop_test"}}

\* the self-test code a response line states, if it is a whole number 0..1023
IsTestCode(w) ==
    /\ w.t = "numeral" /\ w.intlit
    /\ w.e >= 0 /\ Digits(w.m) + w.e <= 4
    /\ w.m * Pow10(w.e) \in 0..1023

\* C12 as stated: for every self-test code 0..1023 the device reports,
\* confidence_test and bop_test return the error flags whose bits equal the
\* code and do not raise.
C12_TestCodeDecoded ==
    (prop \in SelfTests /\ last.op = "get" /\ IsTestCode(last.arg))
        => /\ last.outcome = "ok"
           /\ last.ret = Flag(last.arg.m * Pow10(last.arg.e))

\* what the two measurements do keep: the codes with at most one bit set
\* are decoded
SingleBitDecoded ==
    (prop \in SelfTests /\ last.op = "get" /\ IsTestCode(last.arg)
        /\ last.arg.m * Pow10(last.arg.e) \in TestErrorCodeMembers)
        => /\ last.outcome = "ok"
           /\ last.ret = Flag(last.arg.m * Pow10(last.arg.e))

-----------------------------------------------------------------------------
(* Properties of define_default_channels *)

Activation(k) ==
    [cmd |-> "CONF:CHAN" \o ToString(k) \o ":STAT ON", arg |-> None, src |-> None]

\* the activations 1..k, in ascending order, each once
Activations(k) == [i \in 1..k |-> Activation(i)]

\* C13: define_default_channels works through the channels 1..n in ascending
\* order; for each k a fresh handle is in the child mapping when
\* CONF:CHAN<k>:STAT ON is written, that line is written once and before
\* anything is done for k + 1, on completion every k in 1..n is a key of the
\* mapping, and no activation is written for a k < 1.
C13_RegisterThenActivate ==
    /\ [](call.name = "define_default_channels" =>
            /\ call.channel \in 0..MaxChannels
            /\ call.pc \in {"while", "for", "done"} => wire = Activations(call.channel)
            /\ call.pc = "while" => call.channel = 0 /\ call.channel_number < 1
            /\ call.pc \in {"create", "raised"} =>
                  /\ call.channel >= 1
                  /\ wire = Activations(call.channel - 1)
                  /\ call.channel \in DOMAIN channels
                  /\ channels[call.channel] = {}
            /\ call.pc = "done" =>
                  /\ call.channel_number >= 1
                  /\ call.channel = call.channel_number
                  /\ \A k \in 1..call.channel_number : k \in DOMAIN channels)
    /\ [][(call.name = "define_default_channels" /\ ~Idle /\ wire' # wire)
             => /\ call.channel \in DOMAIN channels
                /\ channels[call.channel] = {}
                /\ channels' = channels
                /\ wire' = Append(wire, Activation(call.channel))]_vars

C13_Witness ==
    /\ call.name = "define_default_channels" /\ call.pc = "done"
    /\ call.channel_number = 2
    /\ wire = <<Activation(1), Activation(2)>>
    /\ DOMAIN channels = {1, 2}

-----------------------------------------------------------------------------
(* Properties of avg_number *)

AvgNumber == [owner |-> "VNAChannel", name |-> "avg_number"]

\* an int from 1 up to the largest sweep_number the channel accepts
IsAverageCount(v) ==
    /\ v.t = "int"
    /\ NumLeq(IntVal(1), v) /\ NumLeq(v, MaxOf(sweep_number.values))

\* C14 as stated: setting avg_number to an int v from 1 up to the bound
\* sweep_number gives writes exactly one command SENS<ch>:AVER:COUN v.
C14_AvgNumberInRangeWritten ==
    (prop = AvgNumber /\ last.op = "set" /\ IsAverageCount(last.arg))
        => /\ WroteOne
           /\ wire[Len(wire)].cmd = "SENS" \o unit[1].id \o ":AVER:COUN %d"
           /\ WrittenValue = Numeral(last.arg, TRUE)

\* what the declaration does instead: no value can be set, every attempt
\* ends in a TypeError before anything is written
AvgNumberNeverWritten ==
    (prop = AvgNumber /\ last.op = "set")
        => last.outcome = "TypeError" /\ Len(wire) = last.before

====
